---- MODULE Spec2Model ----
(***************************************************************************)
(* A model of swervin_mervin/segment.py: one road segment of the pseudo-3D *)
(* renderer, with its two boundary lines (top = far edge, bottom = near    *)
(* edge), its projection, its culling predicate and its render operations. *)
(*                                                                         *)
(* The source is Python 2 (sprite.py uses dict.has_key): "/" between ints  *)
(* is floor division and round() rounds half away from zero.  World        *)
(* coordinates, camera offsets and positions are integers here; the one    *)
(* non-integer quantity, screen.s = CAMERA_DEPTH / camera.z, is kept as an *)
(* exact fraction [num, den], so the rounded pixel coordinates are the     *)
(* exact ones (binary floating point error is not modelled).               *)
(*                                                                         *)
(* A Python dict is a function on a set of string keys; reading a missing  *)
(* key is a KeyError.  A call that raises leaves the writes it made before *)
(* the raise in place.                                                     *)
(***************************************************************************)
EXTENDS Integers, Sequences, FiniteSets, TLC

VARIABLES segments, last, window

vars == <<segments, last, window>>

(***************************************************************************)
(* settings.py (not part of the sources at hand): the values are those of  *)
(* the specification's end-to-end scenarios.                               *)
(***************************************************************************)
SCREEN_WIDTH == 800
SCREEN_HEIGHT == 600
CAMERA_DEPTH_NUM == 84
CAMERA_DEPTH_DEN == 100
CAMERA_HEIGHT == 1000
ROAD_WIDTH == 2000
SEGMENT_HEIGHT == 200
LANES == 4
RUMBLE_LENGTH == 3

DIMENSIONS == <<SCREEN_WIDTH, SCREEN_HEIGHT>>

COLOURS(palette) ==
    CASE palette = "light" -> [road |-> "light_road", grass |-> "light_grass",
                               footpath |-> "light_footpath", line |-> "light_line"]
      [] palette = "dark"  -> [road |-> "dark_road", grass |-> "dark_grass",
                               footpath |-> "dark_footpath", line |-> "dark_line"]

GUTTER == "gutter"

(***************************************************************************)
(* Bounds of the model and the inputs the operations are given.            *)
(***************************************************************************)
MaxIndex == 5
MaxObjects == 2

Indexes == 0..MaxIndex
Palettes == {"light", "dark"}
Elevations == {0, 2000}
CameraXs == {0, 300}
Curves == {0, 100}
CurveDeltas == {0, 50}
Positions == {0, 100, 200, 300}
PlayerYs == {0, 500}
YCoverages == {0, 300, 5000}
Clips == {0, 120}
SpriteIds == {"sprite1", "sprite2", "sprite3"}
CompetitorIds == {"competitor1", "competitor2"}

(***************************************************************************)
(* Python helpers.                                                         *)
(***************************************************************************)
EmptyDict == [k \in {} |-> 0]

SetItem(d, k, v) == (k :> v) @@ d

Get(d, k, default) == IF k \in DOMAIN d THEN d[k] ELSE default

Elems(seq) == {seq[k] : k \in 1..Len(seq)}

\* round(n / d) of Python 2: to the nearest integer, halves away from zero.
round(n, d) ==
    LET sn == IF d < 0 THEN 0 - n ELSE n
        sd == IF d < 0 THEN 0 - d ELSE d
    IN  IF sn >= 0 THEN (2 * sn + sd) \div (2 * sd)
                   ELSE 0 - ((2 * (0 - sn) + sd) \div (2 * sd))

\* list.remove(x): drops the first element equal to x.
ListRemove(seq, x) ==
    LET first == CHOOSE k \in 1..Len(seq) :
                     seq[k] = x /\ \A j \in 1..(k - 1) : seq[j] # x
    IN  [k \in 1..(Len(seq) - 1) |-> IF k < first THEN seq[k] ELSE seq[k + 1]]

(***************************************************************************)
(* Segment.__initialize_line and Segment.__init__                          *)
(***************************************************************************)
initialize_line(y, height) ==
    [world  |-> [y |-> y, z |-> height * SEGMENT_HEIGHT],
     camera |-> EmptyDict,
     screen |-> EmptyDict]

\* A constructor that starts the far line at the segment's own index.
Segment_same_height(palette, index, curve, start_y, end_y) ==
    [index       |-> index,
     curve       |-> curve,
     sprites     |-> <<>>,
     competitors |-> <<>>,
     clip        |-> 0,
     colour      |-> COLOURS(palette),
     top         |-> initialize_line(end_y, index),
     bottom      |-> initialize_line(start_y, index)]

Segment(palette, index, curve, start_y, end_y) ==
    [index       |-> index,
     curve       |-> curve,
     sprites     |-> <<>>,
     competitors |-> <<>>,
     clip        |-> 0,
     colour      |-> COLOURS(palette),
     top         |-> initialize_line(end_y, index + 1),
     bottom      |-> initialize_line(start_y, index)]


\* A projection that guards the division: zero depth silently gives scale 0.
project_line_guarded(p, camera_x, camera_z, player_y) ==
    LET width  == DIMENSIONS[1] \div 2
        height == DIMENSIONS[2] \div 2
        cx == Get(p.world, "x", 0) - camera_x
        cy == Get(p.world, "y", 0) - (CAMERA_HEIGHT + player_y)
        cz == Get(p.world, "z", 0) - camera_z
        camera == SetItem(SetItem(SetItem(p.camera, "x", cx), "y", cy), "z", cz)
        s  == IF cz = 0 THEN [num |-> 0, den |-> 1]
                        ELSE [num |-> CAMERA_DEPTH_NUM, den |-> CAMERA_DEPTH_DEN * cz]
        sx == round(width * s.den + s.num * cx * width, s.den)
        sy == round(height * s.den + s.num * cy * height, s.den)
        sw == round(s.num * ROAD_WIDTH * width, s.den)
        screen == SetItem(SetItem(SetItem(SetItem(p.screen, "s", s), "x", sx), "y", sy), "w", sw)
    IN  [line |-> [p EXCEPT !.camera = camera, !.screen = screen], raised |-> "none"]

\* A projection that accumulates: camera.x starts from the stored camera.x.
project_line_accumulating(p, camera_x, camera_z, player_y) ==
    LET width  == DIMENSIONS[1] \div 2
        height == DIMENSIONS[2] \div 2
        cx == Get(p.camera, "x", 0) - camera_x
        cy == Get(p.world, "y", 0) - (CAMERA_HEIGHT + player_y)
        cz == Get(p.world, "z", 0) - camera_z
        camera == SetItem(SetItem(SetItem(p.camera, "x", cx), "y", cy), "z", cz)
        s  == [num |-> CAMERA_DEPTH_NUM, den |-> CAMERA_DEPTH_DEN * cz]
        sx == round(width * s.den + s.num * cx * width, s.den)
        sy == round(height * s.den + s.num * cy * height, s.den)
        sw == round(s.num * ROAD_WIDTH * width, s.den)
        screen == SetItem(SetItem(SetItem(SetItem(p.screen, "s", s), "x", sx), "y", sy), "w", sw)
    IN  IF cz = 0
        THEN [line |-> [p EXCEPT !.camera = camera], raised |-> "ZeroDivisionError"]
        ELSE [line |-> [p EXCEPT !.camera = camera, !.screen = screen], raised |-> "none"]

(***************************************************************************)
(* Segment.__project_line: the line after the call and what was raised.    *)
(* The three camera writes come first; the division for screen.s raises    *)
(* ZeroDivisionError at camera.z = 0, before any screen key is written.    *)
(***************************************************************************)
project_line(p, camera_x, camera_z, player_y) ==
    LET width  == DIMENSIONS[1] \div 2
        height == DIMENSIONS[2] \div 2
        cx == Get(p.world, "x", 0) - camera_x
        cy == Get(p.world, "y", 0) - (CAMERA_HEIGHT + player_y)
        cz == Get(p.world, "z", 0) - camera_z
        camera == SetItem(SetItem(SetItem(p.camera, "x", cx), "y", cy), "z", cz)
        s  == [num |-> CAMERA_DEPTH_NUM, den |-> CAMERA_DEPTH_DEN * cz]
        sx == round(width * s.den + s.num * cx * width, s.den)
        sy == round(height * s.den + s.num * cy * height, s.den)
        sw == round(s.num * ROAD_WIDTH * width, s.den)
        screen == SetItem(SetItem(SetItem(SetItem(p.screen, "s", s), "x", sx), "y", sy), "w", sw)
    IN  IF cz = 0
        THEN [line |-> [p EXCEPT !.camera = camera], raised |-> "ZeroDivisionError"]
        ELSE [line |-> [p EXCEPT !.camera = camera, !.screen = screen], raised |-> "none"]

\* A projection that leans the near line instead of the far one.
project_lean_bottom(seg, camera_x, curve, curve_delta, position, player_y) ==
    LET t == project_line(seg.top, camera_x - curve, position, player_y)
        b == project_line(seg.bottom, camera_x - curve - curve_delta, position, player_y)
    IN  IF t.raised # "none"
        THEN [seg |-> [seg EXCEPT !.top = t.line], ret |-> "None", raised |-> t.raised]
        ELSE [seg |-> [seg EXCEPT !.top = t.line, !.bottom = b.line],
              ret |-> "None", raised |-> b.raised]

(***************************************************************************)
(* Segment.project: top first, then bottom; a raise in the top line leaves *)
(* the bottom line untouched.                                              *)
(***************************************************************************)
project(seg, camera_x, curve, curve_delta, position, player_y) ==
    LET t == project_line(seg.top, camera_x - curve - curve_delta, position, player_y)
        b == project_line(seg.bottom, camera_x - curve, position, player_y)
    IN  IF t.raised # "none"
        THEN [seg |-> [seg EXCEPT !.top = t.line], ret |-> "None", raised |-> t.raised]
        ELSE [seg |-> [seg EXCEPT !.top = t.line, !.bottom = b.line],
              ret |-> "None", raised |-> b.raised]

\* A culling test whose last comparison is turned around.
should_ignore_inverted(seg, y_coverage) ==
    IF "z" \notin DOMAIN seg.top.camera
    THEN [seg |-> seg, ret |-> "None", raised |-> "KeyError"]
    ELSE IF seg.top.camera.z * CAMERA_DEPTH_DEN <= CAMERA_DEPTH_NUM
    THEN [seg |-> seg, ret |-> "True", raised |-> "none"]
    ELSE IF "y" \notin DOMAIN seg.top.screen
    THEN [seg |-> seg, ret |-> "None", raised |-> "KeyError"]
    ELSE IF seg.top.screen.y <= y_coverage
    THEN [seg |-> seg, ret |-> "True", raised |-> "none"]
    ELSE IF "y" \notin DOMAIN seg.bottom.screen
    THEN [seg |-> seg, ret |-> "None", raised |-> "KeyError"]
    ELSE IF seg.bottom.screen.y <= seg.top.screen.y
    THEN [seg |-> seg, ret |-> "True", raised |-> "none"]
    ELSE [seg |-> seg, ret |-> "False", raised |-> "none"]

(***************************************************************************)
(* Segment.should_ignore: Python's "or" evaluates left to right and stops  *)
(* at the first true operand; a key that was never written is a KeyError.  *)
(* camera.z <= CAMERA_DEPTH is compared exactly (z * den <= num).          *)
(***************************************************************************)
should_ignore(seg, y_coverage) ==
    IF "z" \notin DOMAIN seg.top.camera
    THEN [seg |-> seg, ret |-> "None", raised |-> "KeyError"]
    ELSE IF seg.top.camera.z * CAMERA_DEPTH_DEN <= CAMERA_DEPTH_NUM
    THEN [seg |-> seg, ret |-> "True", raised |-> "none"]
    ELSE IF "y" \notin DOMAIN seg.top.screen
    THEN [seg |-> seg, ret |-> "None", raised |-> "KeyError"]
    ELSE IF seg.top.screen.y <= y_coverage
    THEN [seg |-> seg, ret |-> "True", raised |-> "none"]
    ELSE IF "y" \notin DOMAIN seg.bottom.screen
    THEN [seg |-> seg, ret |-> "None", raised |-> "KeyError"]
    ELSE IF seg.bottom.screen.y >= seg.top.screen.y
    THEN [seg |-> seg, ret |-> "True", raised |-> "none"]
    ELSE [seg |-> seg, ret |-> "False", raised |-> "none"]

(***************************************************************************)
(* The calls a render operation makes on the surface, in order.  A pygame  *)
(* rect of width 0 is filled; of width n > 0 it is an outline n thick.     *)
(***************************************************************************)
Frac(n, d) == [num |-> n, den |-> d]

Rect(colour, x, y, w, h, width) ==
    [fn |-> "rect", colour |-> colour, rect |-> <<x, y, w, h>>, width |-> width]

Polygon(colour, points) == [fn |-> "polygon", colour |-> colour, points |-> points]

Line(colour, start, end) == [fn |-> "line", colour |-> colour, start |-> start, end |-> end]

Render(obj, anchor, clip) == [fn |-> "render", obj |-> obj, anchor |-> anchor, clip |-> clip]

\* int(height <= 1), the width argument of the grass rectangle.
grass_width(height) == IF height <= 1 THEN 1 ELSE 0

\* A grass band whose height is taken the wrong way round.
render_grass_upside_down(seg) ==
    IF "y" \notin DOMAIN seg.top.screen \/ "y" \notin DOMAIN seg.bottom.screen
    THEN [seg |-> seg, ret |-> "None", raised |-> "KeyError", calls |-> <<>>]
    ELSE LET top    == seg.top.screen
             bottom == seg.bottom.screen
             height == bottom.y - top.y
             y      == DIMENSIONS[2] - top.y
         IN  [seg |-> seg, ret |-> "None", raised |-> "none",
              calls |-> <<Rect(seg.colour.grass, 0, y, DIMENSIONS[1], height,
                               grass_width(height))>>]

(***************************************************************************)
(* Segment.render_grass                                                    *)
(***************************************************************************)
render_grass(seg) ==
    IF "y" \notin DOMAIN seg.top.screen \/ "y" \notin DOMAIN seg.bottom.screen
    THEN [seg |-> seg, ret |-> "None", raised |-> "KeyError", calls |-> <<>>]
    ELSE LET top    == seg.top.screen
             bottom == seg.bottom.screen
             height == top.y - bottom.y
             y      == DIMENSIONS[2] - top.y
         IN  [seg |-> seg, ret |-> "None", raised |-> "none",
              calls |-> <<Rect(seg.colour.grass, 0, y, DIMENSIONS[1], height,
                               grass_width(height))>>]

\* The striping test with true division, as "/" is in Python 3.
lanes_drawn_true_division(index) == index % (2 * RUMBLE_LENGTH) = 0

\* (index / RUMBLE_LENGTH) % 2 == 0, with Python 2's integer division.
lanes_drawn(index) == (index \div RUMBLE_LENGTH) % 2 = 0

\* One lane separator; lane counts from 0.
lane_polygon(seg, lane, y_bottom, y_top) ==
    LET top    == seg.top.screen
        bottom == seg.bottom.screen
        bottom_left  == Frac((bottom.x - bottom.w) * LANES + 2 * bottom.w * (lane + 1), LANES)
        bottom_right == Frac(8 * ((bottom.x - bottom.w) * LANES + 2 * bottom.w * (lane + 1))
                               + bottom.w, 8 * LANES)
        top_left     == Frac((top.x - top.w) * LANES + 2 * top.w * (lane + 1), LANES)
        top_right    == Frac(8 * ((top.x - top.w) * LANES + 2 * top.w * (lane + 1))
                               + top.w, 8 * LANES)
    IN  Polygon(seg.colour.line,
                <<<<bottom_left, y_bottom>>, <<bottom_right, y_bottom>>,
                  <<top_right, y_top>>, <<top_left, y_top>>>>)

(***************************************************************************)
(* Segment.render_road.  w / (LANES / 2.8) is w * 28 / (10 * LANES).       *)
(***************************************************************************)
render_road(seg) ==
    IF "y" \notin DOMAIN seg.top.screen \/ "y" \notin DOMAIN seg.bottom.screen
    THEN [seg |-> seg, ret |-> "None", raised |-> "KeyError", calls |-> <<>>]
    ELSE LET top      == seg.top.screen
             bottom   == seg.bottom.screen
             y_top    == DIMENSIONS[2] - top.y
             y_bottom == DIMENSIONS[2] - bottom.y
             colour   == seg.colour
             fd       == 10 * LANES
             road == Polygon(colour.road,
                       <<<<Frac(bottom.x - bottom.w, 1), y_bottom>>,
                         <<Frac(bottom.x + bottom.w, 1), y_bottom>>,
                         <<Frac(top.x + top.w, 1), y_top>>,
                         <<Frac(top.x - top.w, 1), y_top>>>>)
             left == Polygon(colour.footpath,
                       <<<<Frac((bottom.x - bottom.w) * fd - 28 * bottom.w, fd), y_bottom>>,
                         <<Frac(bottom.x - bottom.w, 1), y_bottom>>,
                         <<Frac(top.x - top.w, 1), y_top>>,
                         <<Frac((top.x - top.w) * fd - 28 * top.w, fd), y_top>>>>)
             left_gutter == Line(GUTTER, <<bottom.x - bottom.w, y_bottom>>,
                                         <<top.x - top.w, y_top>>)
             right == Polygon(colour.footpath,
                       <<<<Frac((bottom.x + bottom.w) * fd + 28 * bottom.w, fd), y_bottom>>,
                         <<Frac(bottom.x + bottom.w, 1), y_bottom>>,
                         <<Frac(top.x + top.w, 1), y_top>>,
                         <<Frac((top.x + top.w) * fd + 28 * top.w, fd), y_top>>>>)
             right_gutter == Line(GUTTER, <<bottom.x + bottom.w, y_bottom>>,
                                          <<top.x + top.w, y_top>>)
             lanes == IF lanes_drawn(seg.index)
                      THEN [k \in 1..(LANES - 1) |-> lane_polygon(seg, k - 1, y_bottom, y_top)]
                      ELSE <<>>
         IN  [seg |-> seg, ret |-> "None", raised |-> "none",
              calls |-> <<road, left, left_gutter, right, right_gutter>> \o lanes]

\* The objects with the competitors first.
world_objects_competitors_first(seg) == seg.competitors \o seg.sprites

\* self.sprites + self.competitors, the order the objects are rendered in.
world_objects(seg) == seg.sprites \o seg.competitors

(***************************************************************************)
(* Segment.render_world_objects                                            *)
(***************************************************************************)
render_world_objects(seg) ==
    LET objs == world_objects(seg)
    IN  [seg |-> seg, ret |-> "None", raised |-> "none",
         calls |-> [k \in 1..Len(objs) |-> Render(objs[k], seg.bottom.screen, seg.clip)]]

\* A removal without the except clause: the ValueError escapes.
remove_sprite_unguarded(seg, sprite) ==
    IF sprite \in Elems(seg.sprites)
    THEN [seg |-> [seg EXCEPT !.sprites = ListRemove(seg.sprites, sprite)],
          ret |-> "None", raised |-> "none"]
    ELSE [seg |-> seg, ret |-> "None", raised |-> "ValueError"]

(***************************************************************************)
(* Segment.remove_sprite: list.remove raises ValueError for an absent      *)
(* element, and the except clause swallows it.                             *)
(***************************************************************************)
remove_sprite(seg, sprite) ==
    IF sprite \in Elems(seg.sprites)
    THEN [seg |-> [seg EXCEPT !.sprites = ListRemove(seg.sprites, sprite)],
          ret |-> "None", raised |-> "none"]
    ELSE [seg |-> seg, ret |-> "None", raised |-> "none"]

InitWith(tracks) ==
    /\ segments \in tracks
    /\ last = [op |-> "__init__", i |-> 1, args |-> <<>>, ret |-> "None",
               raised |-> "none", again |-> FALSE]
    /\ window = <<>>

\* The record of a call: again says that the call before it was the same
\* operation on the same segment with the same arguments.
Called(op, i, args, ret, raised) ==
    [op |-> op, i |-> i, args |-> args, ret |-> ret, raised |-> raised,
     again |-> (last.op = op /\ last.i = i /\ last.args = args)]

Project(i, camera_x, curve, curve_delta, position, player_y) ==
    LET r == project(segments[i], camera_x, curve, curve_delta, position, player_y)
    IN  /\ segments' = [segments EXCEPT ![i] = r.seg]
        /\ last' = Called("project", i, <<camera_x, curve, curve_delta, position, player_y>>,
                          r.ret, r.raised)
        /\ window' = <<>>

ShouldIgnore(i, y_coverage) ==
    LET r == should_ignore(segments[i], y_coverage)
    IN  /\ segments' = [segments EXCEPT ![i] = r.seg]
        /\ last' = Called("should_ignore", i, <<y_coverage>>, r.ret, r.raised)
        /\ window' = <<>>

RenderGrass(i) ==
    LET r == render_grass(segments[i])
    IN  /\ segments' = [segments EXCEPT ![i] = r.seg]
        /\ last' = Called("render_grass", i, <<>>, r.ret, r.raised)
        /\ window' = r.calls

RenderRoad(i) ==
    LET r == render_road(segments[i])
    IN  /\ segments' = [segments EXCEPT ![i] = r.seg]
        /\ last' = Called("render_road", i, <<>>, r.ret, r.raised)
        /\ window' = r.calls

RenderWorldObjects(i) ==
    LET r == render_world_objects(segments[i])
    IN  /\ segments' = [segments EXCEPT ![i] = r.seg]
        /\ last' = Called("render_world_objects", i, <<>>, r.ret, r.raised)
        /\ window' = r.calls

RemoveSprite(i, sprite) ==
    LET r == remove_sprite(segments[i], sprite)
    IN  /\ segments' = [segments EXCEPT ![i] = r.seg]
        /\ last' = Called("remove_sprite", i, <<sprite>>, r.ret, r.raised)
        /\ window' = <<>>

(***************************************************************************)
(* The game's writes to the public fields sprites, competitors and clip.   *)
(* The level appends each sprite object to a segment once; a competitor    *)
(* enters a segment it is not in and leaves one it is in.                  *)
(***************************************************************************)
AddSprite(i, sprite) ==
    /\ Len(segments[i].sprites) < MaxObjects
    /\ sprite \notin Elems(segments[i].sprites)
    /\ segments' = [segments EXCEPT ![i].sprites = Append(@, sprite)]
    /\ last' = Called("sprites.append", i, <<sprite>>, "None", "none")
    /\ window' = <<>>

AddCompetitor(i, competitor) ==
    /\ Len(segments[i].competitors) < MaxObjects
    /\ competitor \notin Elems(segments[i].competitors)
    /\ segments' = [segments EXCEPT ![i].competitors = Append(@, competitor)]
    /\ last' = Called("competitors.append", i, <<competitor>>, "None", "none")
    /\ window' = <<>>

LeaveCompetitor(i, competitor) ==
    /\ competitor \in Elems(segments[i].competitors)
    /\ segments' = [segments EXCEPT ![i].competitors = ListRemove(@, competitor)]
    /\ last' = Called("competitors.remove", i, <<competitor>>, "None", "none")
    /\ window' = <<>>

SetClip(i, clip) ==
    /\ segments' = [segments EXCEPT ![i].clip = clip]
    /\ last' = Called("clip", i, <<clip>>, "None", "none")
    /\ window' = <<>>

(***************************************************************************)
(* Spec: one segment near the camera; projection, culling and the grass    *)
(* band.                                                                   *)
(***************************************************************************)
Init ==
    InitWith({<<Segment("light", index, 0, start_y, end_y)>> :
                 index \in {0, 1}, start_y \in Elevations, end_y \in Elevations})

Next ==
    \/ \E i \in DOMAIN segments, curve \in Curves, curve_delta \in CurveDeltas,
          position \in Positions, player_y \in PlayerYs :
           Project(i, 300, curve, curve_delta, position, player_y)
    \/ \E i \in DOMAIN segments, y_coverage \in YCoverages : ShouldIgnore(i, y_coverage)
    \/ \E i \in DOMAIN segments : RenderGrass(i)

Spec == Init /\ [][Next]_vars

(***************************************************************************)
(* SpecRoad: segments along the track, projected from in front and drawn.  *)
(***************************************************************************)
InitRoad ==
    InitWith({<<Segment(palette, index, 0, 0, 0)>> :
                 palette \in Palettes, index \in Indexes})

NextRoad ==
    \/ \E i \in DOMAIN segments, camera_x \in CameraXs, curve_delta \in CurveDeltas,
          position \in {0, 100} :
           Project(i, camera_x, 0, curve_delta, position, 0)
    \/ \E i \in DOMAIN segments : RenderRoad(i)

SpecRoad == InitRoad /\ [][NextRoad]_vars

(***************************************************************************)
(* SpecObjects: the sprites and competitors of one segment.                *)
(***************************************************************************)
InitObjects == InitWith({<<Segment("light", 1, 0, 0, 0)>>})

NextObjects ==
    \/ \E i \in DOMAIN segments, sprite \in SpriteIds : AddSprite(i, sprite)
    \/ \E i \in DOMAIN segments, competitor \in CompetitorIds : AddCompetitor(i, competitor)
    \/ \E i \in DOMAIN segments, competitor \in CompetitorIds : LeaveCompetitor(i, competitor)
    \/ \E i \in DOMAIN segments, clip \in Clips : SetClip(i, clip)
    \/ \E i \in DOMAIN segments, position \in {0, 200} : Project(i, 0, 0, 0, position, 0)
    \/ \E i \in DOMAIN segments : RenderWorldObjects(i)
    \/ \E i \in DOMAIN segments, sprite \in SpriteIds : RemoveSprite(i, sprite)

SpecObjects == InitObjects /\ [][NextObjects]_vars

(***************************************************************************)
(* SpecPair: two adjacent segments of a track, segment 2 following         *)
(* segment 1.                                                              *)
(***************************************************************************)
InitPair ==
    InitWith({<<Segment("light", index, 0, 0, end_y),
                Segment("light", index + 1, 0, start_y, 0)>> :
                 index \in {0, 1}, end_y \in Elevations, start_y \in Elevations})

NextPair ==
    \E i \in DOMAIN segments, camera_x \in CameraXs, curve_delta \in CurveDeltas,
       position \in {100, 300}, player_y \in PlayerYs :
        Project(i, camera_x, 0, curve_delta, position, player_y)

SpecPair == InitPair /\ [][NextPair]_vars

(***************************************************************************)
(* What the claims speak of.                                               *)
(***************************************************************************)
\* The segment the last call was made on.
Seg == segments[last.i]

ScreenKeys == {"s", "x", "y", "w"}

\* Both lines carry screen coordinates.
Projected(seg) ==
    /\ DOMAIN seg.top.screen = ScreenKeys
    /\ DOMAIN seg.bottom.screen = ScreenKeys

\* The line's screen coordinates were computed from its present camera.z.
Current(p) ==
    /\ DOMAIN p.screen = ScreenKeys
    /\ p.screen.s = Frac(CAMERA_DEPTH_NUM, CAMERA_DEPTH_DEN * p.camera.z)

\* The sign of a scale factor kept as a fraction.
Positive(s) == s.num * s.den > 0

NearPlane(seg) == seg.top.camera.z * CAMERA_DEPTH_DEN <= CAMERA_DEPTH_NUM

Occluded(seg, y_coverage) == seg.top.screen.y <= y_coverage

Degenerate(seg) == seg.bottom.screen.y >= seg.top.screen.y

\* C1: on a projected segment should_ignore(y_coverage) returns normally, and
\* returns true exactly when top.camera.z <= CAMERA_DEPTH, or
\* top.screen.y <= y_coverage, or bottom.screen.y >= top.screen.y.
C1_ShouldIgnoreIsTheDisjunction ==
    (last.op = "should_ignore" /\ Projected(Seg)) =>
        /\ last.raised = "none"
        /\ last.ret \in {"True", "False"}
        /\ (last.ret = "True") <=>
               (NearPlane(Seg) \/ Occluded(Seg, last.args[1]) \/ Degenerate(Seg))
        /\ NearPlane(Seg) => last.ret = "True"
        /\ Degenerate(Seg) => last.ret = "True"

\* should_ignore answered true for a segment in front of the near plane and not
\* occluded, on the strength of the third condition alone.
C1_Witness ==
    /\ last.op = "should_ignore" /\ Projected(Seg) /\ last.ret = "True"
    /\ ~NearPlane(Seg) /\ ~Occluded(Seg, last.args[1]) /\ Degenerate(Seg)

\* C2 (as claimed): a segment whose two lines were both projected and that
\* passes culling has camera.z > 0 and screen.s > 0 on its top and on its
\* bottom line.
C2_PassingSegmentIsInFront ==
    (last.op = "should_ignore" /\ last.ret = "False"
        /\ Current(Seg.top) /\ Current(Seg.bottom)) =>
        /\ Seg.top.camera.z > 0 /\ Positive(Seg.top.screen.s)
        /\ Seg.bottom.camera.z > 0 /\ Positive(Seg.bottom.screen.s)

\* C3: after project(camera_x, curve, curve_delta, position, player_y) returns,
\* top.camera.x = 0 - (camera_x - curve - curve_delta), bottom.camera.x =
\* 0 - (camera_x - curve), each line has camera.z = world.z - position and
\* camera.y = world.y - (CAMERA_HEIGHT + player_y), and the two camera.x differ
\* by curve_delta.
C3_ProjectOffsets ==
    (last.op = "project" /\ last.raised = "none") =>
        LET camera_x == last.args[1]
            curve == last.args[2]
            curve_delta == last.args[3]
            position == last.args[4]
            player_y == last.args[5]
        IN  /\ Seg.top.camera.x = 0 - (camera_x - curve - curve_delta)
            /\ Seg.bottom.camera.x = 0 - (camera_x - curve)
            /\ Seg.top.camera.z = Seg.top.world.z - position
            /\ Seg.bottom.camera.z = Seg.bottom.world.z - position
            /\ Seg.top.camera.y = Seg.top.world.y - (CAMERA_HEIGHT + player_y)
            /\ Seg.bottom.camera.y = Seg.bottom.world.y - (CAMERA_HEIGHT + player_y)
            /\ Seg.top.camera.x - Seg.bottom.camera.x = curve_delta

\* project returned with a curve and a lean in play.
C3_Witness ==
    /\ last.op = "project" /\ last.raised = "none"
    /\ last.args[2] # 0 /\ last.args[3] # 0 /\ last.args[5] # 0
    /\ Seg.top.camera.x # Seg.bottom.camera.x

\* C8: a project call that puts the top or the bottom line at camera.z = 0
\* ends in an error, and leaves the screen coordinates of that line as they
\* were (a top line at zero depth also leaves the bottom line untouched).
C8_ZeroDepthRaises ==
    [][\A i \in DOMAIN segments :
          (last'.op = "project" /\ last'.i = i) =>
              /\ (segments[i].top.world.z = last'.args[4]) =>
                     /\ last'.raised = "ZeroDivisionError"
                     /\ segments'[i].top.screen = segments[i].top.screen
                     /\ segments'[i].bottom = segments[i].bottom
              /\ (segments[i].bottom.world.z = last'.args[4]) =>
                     /\ last'.raised = "ZeroDivisionError"
                     /\ segments'[i].bottom.screen = segments[i].bottom.screen]_vars

\* project raised on a top line at zero depth that still carries the screen
\* coordinates of an earlier projection.
C8_Witness ==
    /\ last.op = "project" /\ last.raised = "ZeroDivisionError"
    /\ Seg.top.camera.z = 0
    /\ DOMAIN Seg.top.screen = ScreenKeys
    /\ Seg.top.screen.s.den # 0

\* C9: a project call that repeats the call before it (same segment, same
\* arguments) leaves both lines, camera and screen, exactly as that call left
\* them.
C9_ProjectTwiceIsOnce ==
    [][\A i \in DOMAIN segments :
          (/\ last.op = "project" /\ last'.op = "project"
           /\ last.i = i /\ last'.i = i
           /\ last'.args = last.args) =>
              /\ segments'[i].top = segments[i].top
              /\ segments'[i].bottom = segments[i].bottom
              /\ last'.raised = last.raised]_vars

\* project was called twice in a row with the same arguments and returned.
C9_Witness ==
    /\ last.op = "project" /\ last.again /\ last.raised = "none"
    /\ Projected(Seg)

\* C10 (as claimed): render_grass draws one rectangle (0, SCREEN_HEIGHT -
\* top.screen.y, DIMENSIONS[0], top.screen.y - bottom.screen.y) in the grass
\* colour, filled (width 0) whatever the height.
C10_GrassAlwaysFilled ==
    (last.op = "render_grass" /\ last.raised = "none") =>
        window = <<Rect(Seg.colour.grass, 0, SCREEN_HEIGHT - Seg.top.screen.y,
                        DIMENSIONS[1], Seg.top.screen.y - Seg.bottom.screen.y, 0)>>

\* C10 (amended): the same rectangle, filled (width 0) when its height is above
\* 1 and drawn with line width 1 when its height is 1 or less.
C10_GrassFilledAboveOnePixel ==
    (last.op = "render_grass" /\ last.raised = "none") =>
        LET height == Seg.top.screen.y - Seg.bottom.screen.y
        IN  window = <<Rect(Seg.colour.grass, 0, SCREEN_HEIGHT - Seg.top.screen.y,
                            DIMENSIONS[1], height, IF height > 1 THEN 0 ELSE 1)>>

\* render_grass drew a band more than one pixel high, filled.
C10_Witness ==
    /\ last.op = "render_grass" /\ last.raised = "none"
    /\ Len(window) = 1
    /\ window[1].rect[4] > 1 /\ window[1].width = 0

\* The lane separators among the calls of a render_road.
LaneSeparators(seg, calls) ==
    {k \in 1..Len(calls) : calls[k].fn = "polygon" /\ calls[k].colour = seg.colour.line}

\* C5: render_road draws LANES - 1 lane separators when the index lies in an
\* even run of RUMBLE_LENGTH indices (0..2, 6..8, ...) and none when it lies in
\* an odd run (3..5, ...); the five calls before them are always made.
C5_LaneSeparatorsAlternate ==
    (last.op = "render_road" /\ last.raised = "none") =>
        /\ Cardinality(LaneSeparators(Seg, window)) =
               IF Seg.index % (2 * RUMBLE_LENGTH) < RUMBLE_LENGTH THEN LANES - 1 ELSE 0
        /\ Len(window) = 5 + Cardinality(LaneSeparators(Seg, window))
        /\ Seg.index \in {0, 1, 2} => Cardinality(LaneSeparators(Seg, window)) = 3
        /\ Seg.index \in {3, 4, 5} => Cardinality(LaneSeparators(Seg, window)) = 0

\* render_road drew the separators of a segment that is not the first of its
\* run.
C5_Witness ==
    /\ last.op = "render_road" /\ last.raised = "none"
    /\ Seg.index = 2
    /\ Cardinality(LaneSeparators(Seg, window)) = LANES - 1

\* The render calls render_world_objects is to make on a segment.
ExpectedRenders(seg) ==
    [k \in 1..(Len(seg.sprites) + Len(seg.competitors)) |->
        Render(IF k <= Len(seg.sprites) THEN seg.sprites[k]
                                        ELSE seg.competitors[k - Len(seg.sprites)],
               seg.bottom.screen, seg.clip)]

\* C7: render_world_objects renders every sprite once, in list order, then
\* every competitor once, in list order, each with the segment's bottom.screen
\* and clip, and changes nothing of the segment.
C7_SpritesThenCompetitors ==
    [][\A i \in DOMAIN segments :
          (last'.op = "render_world_objects" /\ last'.i = i) =>
              /\ last'.raised = "none"
              /\ window' = ExpectedRenders(segments[i])
              /\ segments' = segments]_vars

\* Two sprites and a competitor were rendered at a projected anchor with a clip.
C7_Witness ==
    /\ last.op = "render_world_objects"
    /\ Len(Seg.sprites) = 2 /\ Len(Seg.competitors) >= 1
    /\ Seg.clip # 0 /\ DOMAIN Seg.bottom.screen = ScreenKeys
    /\ Len(window) = 2 + Len(Seg.competitors)
    /\ window[1].obj \in SpriteIds /\ window[3].obj \in CompetitorIds

\* C4: remove_sprite of a sprite that is not in sprites raises nothing and
\* changes nothing of the segment; a sprite that is removed is gone, and
\* removing it again changes nothing.
C4_RemoveAbsentIsNoOp ==
    [][\A i \in DOMAIN segments :
          (last'.op = "remove_sprite" /\ last'.i = i) =>
              /\ last'.raised = "none"
              /\ (last'.args[1] \notin Elems(segments[i].sprites)) => segments' = segments
              /\ last'.args[1] \notin Elems(segments'[i].sprites)
              /\ (last.op = "remove_sprite" /\ last.i = i /\ last.args = last'.args)
                     => segments' = segments]_vars

\* A sprite was removed a second time from a segment that still has sprites.
C4_Witness ==
    /\ last.op = "remove_sprite" /\ last.again /\ last.raised = "none"
    /\ Seg.sprites # <<>>
    /\ last.args[1] \notin Elems(Seg.sprites)

\* C6: when segment 1 ends at the elevation segment 2 starts at, and the two
\* are projected one after the other with the same camera_x, position and
\* player_y, curve 0 and curve_delta 0, away from zero depth, then segment 1's
\* top line and segment 2's bottom line have the same screen x, y and w.
C6_SharedBoundary ==
    [][(/\ last.op = "project" /\ last'.op = "project"
        /\ last.raised = "none" /\ last'.raised = "none"
        /\ last.i # last'.i
        /\ last'.args = last.args
        /\ last'.args[2] = 0 /\ last'.args[3] = 0
        /\ segments[2].index = segments[1].index + 1
        /\ segments[1].top.world.y = segments[2].bottom.world.y) =>
           /\ segments'[1].top.screen.x = segments'[2].bottom.screen.x
           /\ segments'[1].top.screen.y = segments'[2].bottom.screen.y
           /\ segments'[1].top.screen.w = segments'[2].bottom.screen.w]_vars

\* Both segments stand projected from the same camera, without curve or lean,
\* and the shared boundary is one screen line off the centre column.
C6_Witness ==
    /\ Len(segments) = 2
    /\ last.op = "project" /\ last.raised = "none"
    /\ last.args[2] = 0 /\ last.args[3] = 0
    /\ Projected(segments[1]) /\ Projected(segments[2])
    /\ segments[1].top.world = segments[2].bottom.world
    /\ segments[1].top.camera = segments[2].bottom.camera
    /\ segments[1].bottom.camera.x = segments[2].top.camera.x
    /\ segments[1].top.screen = segments[2].bottom.screen
    /\ segments[1].top.screen.x # SCREEN_WIDTH \div 2

====
